---- MODULE Spec2Model ----
(***************************************************************************)
(* Model of the futex-based ThreadParker / UnparkHandle of                 *)
(* core/src/thread_parker/hermit.rs.                                       *)
(*                                                                         *)
(* One parker (one state word, `futex`), its owning thread running         *)
(* prepare_park / park / park_until / timed_out cycles, an unparker        *)
(* running unpark_lock followed by a deferred unpark, the host's           *)
(* futex_wait / futex_wake primitives, and a monotonic clock.              *)
(* The memory of the parker may be freed and reused while handles are      *)
(* outstanding.  FaultSpec adds a host that ends a wait with a status       *)
(* outside its contract.                                                   *)
(*                                                                         *)
(* Every owner action is one step between two accesses to shared state     *)
(* (the atomic word, the clock, the host primitive).                       *)
(*                                                                         *)
(* time_t is a 64 bit signed integer on the target; the model keeps its    *)
(* signed wrap-around but at a width of TimeTBits bits, so that the        *)
(* overflow branch of park_until is reachable with small numbers.          *)
(***************************************************************************)
EXTENDS Integers, Naturals, Sequences, FiniteSets, TLC

\* ------------------------------------------------------------------ bounds
\* width in bits of the model's time_t
TimeTBits == 2
\* the clock runs freely up to this many seconds
MaxSec == 1
\* UnparkHandles that may be outstanding (issued, not yet consumed) at once
MaxHandles == 2

\* ------------------------------------------------------- program constants
UNPARKED == 0
PARKED == 1
EAGAIN == 11
EINVAL == 22
ETIMEDOUT == 110
I32Max == 2147483647
NANOS_PER_SEC == 1000000000

\* time_t::MAX at the model's width
time_t_MAX == 2 ^ (TimeTBits - 1) - 1

\* ------------------------------------------------------------------- time
\* sub-second parts the clock and the deadlines take
SubNanos == {0, NANOS_PER_SEC - 1}

\* an Instant / a Duration: whole seconds and sub-second nanoseconds
Time(s, n) == [sec |-> s, nsec |-> n]

\* a <= b on Instants
InstantLe(a, b) == a.sec < b.sec \/ (a.sec = b.sec /\ a.nsec <= b.nsec)

\* Instant - Instant, for b <= a: the Duration between them
InstantSub(a, b) ==
    IF a.nsec >= b.nsec
    THEN Time(a.sec - b.sec, a.nsec - b.nsec)
    ELSE Time(a.sec - b.sec - 1, a.nsec + NANOS_PER_SEC - b.nsec)

\* Duration::as_secs and Duration::subsec_nanos
as_secs(d) == d.sec
subsec_nanos(d) == d.nsec

\* `x as time_t` of an unsigned value: two's complement wrap at the model width
as_time_t(x) ==
    LET m == x % (2 ^ TimeTBits)
    IN  IF m > time_t_MAX THEN m - 2 ^ TimeTBits ELSE m

\* `x as i32` of a u32 value
as_i32(x) == IF x > I32Max THEN (x - I32Max) - I32Max - 2 ELSE x

\* the instant the clock shows after its next advance
NextInstant(t) ==
    IF t.nsec = 0 THEN Time(t.sec, NANOS_PER_SEC - 1) ELSE Time(t.sec + 1, 0)

\* the instant a relative timeout ts, started at instant t, expires
Expiry(t, ts) ==
    IF t.nsec + ts.tv_nsec >= NANOS_PER_SEC
    THEN Time(t.sec + ts.tv_sec + 1, t.nsec + ts.tv_nsec - NANOS_PER_SEC)
    ELSE Time(t.sec + ts.tv_sec, t.nsec + ts.tv_nsec)

\* the deadlines a caller of park_until may pass
MaxDeadlineSec == MaxSec + time_t_MAX + 1
Deadlines == { Time(s, n) : s \in 0 .. MaxDeadlineSec, n \in SubNanos }

ZeroTime == Time(0, 0)
NoTimespec == [tv_sec |-> 0, tv_nsec |-> 0]

\* ------------------------------------------------------------------ state
VARIABLES
    futex,          \* ThreadParker.futex, the state word
    pc,             \* the owning thread's position
    call,           \* the operation the owner is in: none, park, park_until
    inner,          \* park() is running on behalf of park_until (overflow path)
    timeout,        \* park_until's argument
    now,            \* park_until's local `now`
    loaded,         \* the value the owner's last load of the state word read
    waitTimed,      \* the wait in progress was given Some(ts)
    waitTs,         \* the timespec passed to futex_wait
    waitStart,      \* the clock when the wait in progress began
    r,              \* the status futex_wait returned
    puResult,       \* what park_until returned
    timedOutResult, \* what timed_out() returned
    handles,        \* UnparkHandles issued and not yet consumed
    queued,         \* the owner is published to the unparker
    clock,          \* Instant::now()
    unlockedSince,  \* history: unpark_lock ran since the last prepare_park
    unlockedAtCall, \* history: unlockedSince when park/park_until was entered
    pastAtCall,     \* history: timeout <= clock when park_until was called
    waited,         \* history: the current call invoked futex_wait
    timedWaited,    \* history: the current call invoked futex_wait with Some(ts)
    overflowed,     \* history: the current call saw diff.as_secs() > time_t::MAX
    lastWake,       \* the count the last futex_wake returned
    unparkPanicked, \* unpark() ended in the panic of futex_return_unexpected
    debug_assertions, \* cfg!(debug_assertions) of the build
    prepared,       \* history: prepare_park has run at least once
    mem,            \* whose memory the handles' address is: parker, freed, reused
    otherWord,      \* the word at the address while another parker owns it
    otherWaiting,   \* a thread of that other parker is blocked on the address
    unparkedStale   \* history: the last unpark() found the address not the parker's

vars == << futex, pc, call, inner, timeout, now, loaded, waitTimed, waitTs,
           waitStart, r, puResult, timedOutResult, handles, queued, clock,
           unlockedSince, unlockedAtCall, pastAtCall, waited, timedWaited,
           overflowed, lastWake, unparkPanicked, debug_assertions, prepared,
           mem, otherWord, otherWaiting, unparkedStale >>

\* the memory behind the address, apart from the parker's own word
memory == << mem, otherWord, otherWaiting, unparkedStale >>

\* ThreadParker::new(): the word starts UNPARKED; nothing else exists yet
Init ==
    /\ futex = UNPARKED
    /\ pc = "idle"
    /\ call = "none"
    /\ inner = FALSE
    /\ timeout = ZeroTime
    /\ now = ZeroTime
    /\ loaded = UNPARKED
    /\ waitTimed = FALSE
    /\ waitTs = NoTimespec
    /\ waitStart = ZeroTime
    /\ r = 0
    /\ puResult = TRUE
    /\ timedOutResult = FALSE
    /\ handles = 0
    /\ queued = FALSE
    /\ clock = ZeroTime
    /\ unlockedSince = FALSE
    /\ unlockedAtCall = FALSE
    /\ pastAtCall = FALSE
    /\ waited = FALSE
    /\ timedWaited = FALSE
    /\ overflowed = FALSE
    /\ lastWake = 0
    /\ unparkPanicked = FALSE
    /\ debug_assertions \in BOOLEAN
    /\ prepared = FALSE
    /\ mem = "parker"
    /\ otherWord = UNPARKED
    /\ otherWaiting = FALSE
    /\ unparkedStale = FALSE

\* --------------------------------------------------- the parker's own code
\* mutant: prepare_park leaves the word UNPARKED
prepare_park_value_Unparked == UNPARKED

\* prepare_park: the value stored into the word
prepare_park_value == PARKED

\* unpark_lock: the value stored into the word
unpark_lock_value == UNPARKED

\* mutant: the loop body runs without looking at the word
StillParked_Always(v) == TRUE

\* the loop condition of park and park_until: self.futex.load(Acquire) != UNPARKED
StillParked(v) == v # UNPARKED

\* mutant: timed_out compares with the wrong constant
timed_out_Inverted(v) == v # PARKED

\* timed_out: self.futex.load(Relaxed) != UNPARKED
timed_out(v) == v # UNPARKED

\* mutant: a timeout resets the word to UNPARKED
timeout_word_Reset(w) == UNPARKED

\* park_until: the word after a return of false, given the word before it;
\* neither `return false` nor Break(false) stores anything
timeout_word(w) == w

\* mutant: `timeout < now`
DeadlinePassed_Strict(t, n) == InstantLe(t, n) /\ t # n

\* park_until: timeout <= now
DeadlinePassed(t, n) == InstantLe(t, n)

\* mutant: the overflow check is off by one, `>=`
TimeoutOverflowed_OffByOne(diff) == as_secs(diff) >= time_t_MAX

\* mutant: the overflow check is missing
TimeoutOverflowed_Never(diff) == FALSE

\* park_until: diff.as_secs() > time_t::MAX as u64
TimeoutOverflowed(diff) == as_secs(diff) > time_t_MAX

\* mutant: the sub-second part of the timeout is dropped
MakeTimespec_WholeSeconds(diff) ==
    [tv_sec |-> as_time_t(as_secs(diff)), tv_nsec |-> 0]

\* park_until: the timespec built from diff
MakeTimespec(diff) ==
    [tv_sec |-> as_time_t(as_secs(diff)), tv_nsec |-> as_i32(subsec_nanos(diff))]

\* futex_wait_relative: the value the word is expected to hold
futex_wait_expected == PARKED

\* mutant: the check is an unconditional assertion
futex_return_unexpected_Always(x, dbg) == TRUE

\* futex_return_unexpected: TRUE when it panics
futex_return_unexpected(x, dbg) == dbg

\* futex_wait_relative: what it makes of the status x of futex_wait
futex_wait_relative(x, dbg) ==
    IF x = 0 THEN "break_true"
    ELSE IF x = -ETIMEDOUT THEN "break_false"
    ELSE IF x # -EAGAIN /\ futex_return_unexpected(x, dbg) THEN "panic"
    ELSE "continue"

\* mutant: unpark asks futex_wake to wake nobody
WakeCount_None == I32Max - I32Max

\* unpark: the count passed to futex_wake
WakeCount == I32Max

\* mutant: unpark clears the word through the pointer it carries
unpark_word_Cleared(w) == UNPARKED

\* unpark: the word at the handle's address after unpark(), given the word
\* before it; the pointer is only passed to futex_wake
unpark_word(w) == w

\* mutant: the check of futex_wake's result is off by one, `r < 0 || r > 0`
WakeUnexpected_OffByOne(x) == x < 0 \/ x > 0

\* unpark: r < 0 || r > 1
WakeUnexpected(x) == x < 0 \/ x > 1

\* ------------------------------------------------------ the host primitive
\* futex_wait blocks only while the word holds the expected value
FutexWaitBlocks(word, expected) == word = expected

\* futex_wake wakes up to `count` of the `waiters` blocked on the address
futex_wake(waiters, count) == IF waiters <= count THEN waiters ELSE count

\* threads blocked in futex_wait on the address
Waiters == (IF pc = "blocked" THEN 1 ELSE 0) + (IF otherWaiting THEN 1 ELSE 0)


\* --------------------------------------------------------------- the owner
\* the whole seconds of (deadline - clock reading) exceed time_t::MAX
RemainingExceeds(d, t) ==
    /\ ~InstantLe(d, t)
    /\ InstantSub(d, t).sec > time_t_MAX

\* mutant: `now` is read once, before the first wait, and kept over the retries
clock_reading_Stale(prev, clk) == IF waited THEN prev ELSE clk

\* park_until: `let now = Instant::now()` inside the loop; prev is the value
\* `now` had in the iteration before, clk the clock
clock_reading(prev, clk) == clk

\* the locals of a finished call go out of scope
LocalsDropped ==
    /\ timeout' = ZeroTime
    /\ now' = ZeroTime
    /\ loaded' = UNPARKED
    /\ waitTimed' = FALSE
    /\ waitTs' = NoTimespec
    /\ waitStart' = ZeroTime
    /\ r' = 0
    /\ unlockedAtCall' = FALSE
    /\ waited' = FALSE
    /\ timedWaited' = FALSE

\* prepare_park(): store PARKED; the caller then publishes itself to unparkers
PreparePark ==
    /\ pc = "idle"
    /\ mem = "parker"
    /\ futex' = prepare_park_value
    /\ queued' = TRUE
    /\ unlockedSince' = FALSE
    /\ prepared' = TRUE
    /\ pc' = "prepared"
    /\ UNCHANGED memory
    /\ UNCHANGED << call, inner, timeout, now, loaded, waitTimed, waitTs,
                    waitStart, r, puResult, timedOutResult, handles, clock,
                    unlockedAtCall, pastAtCall, waited, timedWaited, overflowed,
                    lastWake, unparkPanicked, debug_assertions >>

\* the owner enters park()
CallPark ==
    /\ pc = "prepared"
    /\ call' = "park"
    /\ inner' = FALSE
    /\ pc' = "park_load"
    /\ unlockedAtCall' = unlockedSince
    /\ pastAtCall' = FALSE
    /\ waited' = FALSE
    /\ timedWaited' = FALSE
    /\ overflowed' = FALSE
    /\ UNCHANGED memory
    /\ UNCHANGED << futex, timeout, now, loaded, waitTimed, waitTs, waitStart,
                    r, puResult, timedOutResult, handles, queued, clock,
                    unlockedSince, lastWake, unparkPanicked, debug_assertions, prepared >>

\* the owner enters park_until(d)
CallParkUntil(d) ==
    /\ pc = "prepared"
    /\ call' = "park_until"
    /\ inner' = FALSE
    /\ timeout' = d
    /\ pc' = "pu_load"
    /\ unlockedAtCall' = unlockedSince
    /\ pastAtCall' = InstantLe(d, clock)
    /\ waited' = FALSE
    /\ timedWaited' = FALSE
    /\ overflowed' = FALSE
    /\ UNCHANGED memory
    /\ UNCHANGED << futex, now, loaded, waitTimed, waitTs, waitStart, r,
                    puResult, timedOutResult, handles, queued, clock,
                    unlockedSince, lastWake, unparkPanicked, debug_assertions, prepared >>

\* park(): the loop head, `while self.futex.load(Acquire) != UNPARKED`
ParkLoad ==
    /\ pc = "park_load"
    /\ loaded' = futex
    /\ IF StillParked(futex)
       THEN /\ pc' = "wait_call"
            /\ waitTimed' = FALSE
            /\ waitTs' = NoTimespec
       ELSE /\ pc' = "park_ret"
            /\ UNCHANGED << waitTimed, waitTs >>
    /\ UNCHANGED memory
    /\ UNCHANGED << futex, call, inner, timeout, now, waitStart, r, puResult,
                    timedOutResult, handles, queued, clock, unlockedSince,
                    unlockedAtCall, pastAtCall, waited, timedWaited, overflowed,
                    lastWake, unparkPanicked, debug_assertions, prepared >>

\* park() returns: to the caller, or into park_until's `return true`
ParkReturn ==
    /\ pc = "park_ret"
    /\ IF inner
       THEN /\ inner' = FALSE
            /\ puResult' = TRUE
            /\ pc' = "pu_ret"
            /\ call' = call
       ELSE /\ pc' = "idle"
            /\ call' = "none"
            /\ UNCHANGED << inner, puResult >>
    /\ IF inner
       THEN UNCHANGED << timeout, now, loaded, waitTimed, waitTs, waitStart, r,
                         unlockedAtCall, waited, timedWaited >>
       ELSE LocalsDropped
    /\ UNCHANGED memory
    /\ UNCHANGED << futex, timedOutResult, handles, queued, clock,
                    unlockedSince, pastAtCall, overflowed, lastWake,
                    unparkPanicked, debug_assertions, prepared >>

\* park_until(): the loop head, `while self.futex.load(Acquire) != UNPARKED`;
\* falling out of the loop returns true
ParkUntilLoad ==
    /\ pc = "pu_load"
    /\ loaded' = futex
    /\ IF StillParked(futex)
       THEN /\ pc' = "pu_now"
            /\ UNCHANGED puResult
       ELSE /\ pc' = "pu_ret"
            /\ puResult' = TRUE
    /\ UNCHANGED memory
    /\ UNCHANGED << futex, call, inner, timeout, now, waitTimed, waitTs,
                    waitStart, r, timedOutResult, handles, queued, clock,
                    unlockedSince, unlockedAtCall, pastAtCall, waited,
                    timedWaited, overflowed, lastWake, unparkPanicked,
                    debug_assertions, prepared >>

\* park_until(): read the clock, then choose between returning false,
\* the untimed park() and a timed wait
ParkUntilNow ==
    /\ pc = "pu_now"
    /\ LET n == clock_reading(now, clock)
       IN  /\ now' = n
           /\ overflowed' = (overflowed \/ RemainingExceeds(timeout, clock))
           /\ IF DeadlinePassed(timeout, n)
              THEN /\ puResult' = FALSE
                   /\ futex' = timeout_word(futex)
                   /\ pc' = "pu_ret"
                   /\ UNCHANGED << inner, waitTimed, waitTs, unlockedAtCall >>
              ELSE IF TimeoutOverflowed(InstantSub(timeout, n))
              THEN /\ inner' = TRUE
                   /\ unlockedAtCall' = unlockedSince
                   /\ pc' = "park_load"
                   /\ UNCHANGED << futex, puResult, waitTimed, waitTs >>
              ELSE /\ waitTimed' = TRUE
                   /\ waitTs' = MakeTimespec(InstantSub(timeout, n))
                   /\ pc' = "wait_call"
                   /\ UNCHANGED << futex, puResult, inner, unlockedAtCall >>
    /\ UNCHANGED memory
    /\ UNCHANGED << call, timeout, loaded, waitStart, r, timedOutResult,
                    handles, queued, clock, unlockedSince, pastAtCall, waited,
                    timedWaited, lastWake, unparkPanicked, debug_assertions,
                    prepared >>

\* futex_wait_relative(): the call of futex_wait; the host compares the word
\* with the expected value and either refuses (EAGAIN) or blocks the thread
FutexWaitCall ==
    /\ pc = "wait_call"
    /\ waited' = TRUE
    /\ timedWaited' = (timedWaited \/ waitTimed)
    /\ waitStart' = clock
    /\ IF FutexWaitBlocks(futex, futex_wait_expected)
       THEN /\ pc' = "blocked"
            /\ UNCHANGED r
       ELSE /\ pc' = "wait_ret"
            /\ r' = -EAGAIN
    /\ UNCHANGED memory
    /\ UNCHANGED << futex, call, inner, timeout, now, loaded, waitTimed, waitTs,
                    puResult, timedOutResult, handles, queued, clock,
                    unlockedSince, unlockedAtCall, pastAtCall, overflowed,
                    lastWake, unparkPanicked, debug_assertions, prepared >>

\* the host ends a timed wait whose relative timeout has run out
FutexTimeout ==
    /\ pc = "blocked"
    /\ waitTimed
    /\ InstantLe(Expiry(waitStart, waitTs), clock)
    /\ r' = -ETIMEDOUT
    /\ pc' = "wait_ret"
    /\ UNCHANGED memory
    /\ UNCHANGED << futex, call, inner, timeout, now, loaded, waitTimed, waitTs,
                    waitStart, puResult, timedOutResult, handles, queued, clock,
                    unlockedSince, unlockedAtCall, pastAtCall, waited,
                    timedWaited, overflowed, lastWake, unparkPanicked,
                    debug_assertions, prepared >>

\* futex_wait_relative() maps the status to a ControlFlow, and the `match`
\* of park() / park_until() acts on it
FutexWaitReturn ==
    /\ pc = "wait_ret"
    /\ LET cf == futex_wait_relative(r, debug_assertions)
           inPark == call = "park" \/ inner
       IN  CASE cf = "panic" ->
                  /\ pc' = "panicked"
                  /\ UNCHANGED puResult
             [] cf = "continue" ->
                  /\ pc' = IF inPark THEN "park_load" ELSE "pu_load"
                  /\ UNCHANGED puResult
             [] cf = "break_true" ->
                  /\ pc' = IF inPark THEN "park_ret" ELSE "pu_ret"
                  /\ puResult' = IF inPark THEN puResult ELSE TRUE
             [] cf = "break_false" ->
                  /\ pc' = IF inPark THEN "park_ret" ELSE "pu_ret"
                  /\ puResult' = IF inPark THEN puResult ELSE FALSE
    /\ futex' = IF futex_wait_relative(r, debug_assertions) = "break_false"
               THEN timeout_word(futex)
               ELSE futex
    /\ UNCHANGED memory
    /\ UNCHANGED << call, inner, timeout, now, loaded, waitTimed, waitTs,
                    waitStart, r, timedOutResult, handles, queued, clock,
                    unlockedSince, unlockedAtCall, pastAtCall, waited,
                    timedWaited, overflowed, lastWake, unparkPanicked,
                    debug_assertions, prepared >>

\* after park_until returned false the owner asks timed_out(); on a genuine
\* timeout it withdraws itself from the unparkers
TimedOut ==
    /\ pc = "pu_ret"
    /\ puResult = FALSE
    /\ timedOutResult' = timed_out(futex)
    /\ queued' = IF timed_out(futex) THEN FALSE ELSE queued
    /\ pc' = "pu_done"
    /\ UNCHANGED memory
    /\ UNCHANGED << futex, call, inner, timeout, now, loaded, waitTimed, waitTs,
                    waitStart, r, puResult, handles, clock, unlockedSince,
                    unlockedAtCall, pastAtCall, waited, timedWaited, overflowed,
                    lastWake, unparkPanicked, debug_assertions, prepared >>

\* the park_until cycle is over
Finish ==
    /\ \/ pc = "pu_ret" /\ puResult = TRUE
       \/ pc = "pu_done"
    /\ pc' = "idle"
    /\ call' = "none"
    /\ LocalsDropped
    /\ puResult' = TRUE
    /\ timedOutResult' = FALSE
    /\ pastAtCall' = FALSE
    /\ overflowed' = FALSE
    /\ UNCHANGED memory
    /\ UNCHANGED << futex, inner, handles, queued, clock, unlockedSince,
                    lastWake, unparkPanicked, debug_assertions, prepared >>

\* ------------------------------------------------------------ the unparker
\* unpark_lock(): store UNPARKED and hand out a handle
UnparkLock ==
    /\ queued
    /\ handles < MaxHandles
    /\ ~unparkPanicked
    /\ futex' = unpark_lock_value
    /\ handles' = handles + 1
    /\ queued' = FALSE
    /\ unlockedSince' = TRUE
    /\ UNCHANGED memory
    /\ UNCHANGED << pc, call, inner, timeout, now, loaded, waitTimed, waitTs,
                    waitStart, r, puResult, timedOutResult, clock,
                    unlockedAtCall, pastAtCall, waited, timedWaited, overflowed,
                    lastWake, unparkPanicked, debug_assertions, prepared >>

\* UnparkHandle::unpark(): futex_wake on the address, then the check of its
\* result; the word at the address is neither read nor written
Unpark ==
    /\ handles > 0
    /\ ~unparkPanicked
    /\ handles' = handles - 1
    /\ unparkedStale' = (mem # "parker")
    /\ futex' = IF mem = "parker" THEN unpark_word(futex) ELSE futex
    /\ otherWord' = IF mem = "reused" THEN unpark_word(otherWord) ELSE otherWord
    /\ LET woken == futex_wake(Waiters, WakeCount)
       IN  /\ lastWake' = woken
           /\ IF woken > 0 /\ pc = "blocked"
              THEN pc' = "wait_ret" /\ r' = 0
              ELSE UNCHANGED << pc, r >>
           /\ otherWaiting' = (otherWaiting /\ woken = 0)
           /\ unparkPanicked' =
                 (WakeUnexpected(woken) /\ futex_return_unexpected(woken, debug_assertions))
    /\ UNCHANGED << mem, call, inner, timeout, now, loaded, waitTimed, waitTs,
                    waitStart, puResult, timedOutResult, queued, clock,
                    unlockedSince, unlockedAtCall, pastAtCall, waited,
                    timedWaited, overflowed, debug_assertions, prepared >>

\* ------------------------------------------------- the parker's memory
ownerAndClock == << pc, call, inner, timeout, now, loaded, waitTimed, waitTs,
                   waitStart, r, puResult, timedOutResult, handles, queued,
                   clock, unlockedAtCall, pastAtCall, waited, timedWaited,
                   overflowed, lastWake, unparkPanicked, debug_assertions >>

\* the owner, out of every queue, drops its parker; handles may still be
\* outstanding ("the thread data may have been freed at this point")
DropParker ==
    /\ pc = "idle"
    /\ mem = "parker"
    /\ ~queued
    /\ mem' = "freed"
    /\ UNCHANGED << futex, otherWord, otherWaiting, unparkedStale, prepared,
                    unlockedSince >>
    /\ UNCHANGED ownerAndClock

\* the freed memory becomes the state word of another parker, holding w, on
\* which that parker's thread may be blocked
ReuseMemory(w, b) ==
    /\ mem = "freed"
    /\ mem' = "reused"
    /\ otherWord' = w
    /\ otherWaiting' = (b /\ w = PARKED)
    /\ UNCHANGED << futex, unparkedStale, prepared, unlockedSince >>
    /\ UNCHANGED ownerAndClock

\* the other parker is gone again
ReleaseMemory ==
    /\ mem = "reused"
    /\ mem' = "freed"
    /\ otherWord' = UNPARKED
    /\ otherWaiting' = FALSE
    /\ UNCHANGED << futex, unparkedStale, prepared, unlockedSince >>
    /\ UNCHANGED ownerAndClock

\* ThreadParker::new() at the same address
NewParker ==
    /\ pc = "idle"
    /\ mem = "freed"
    /\ mem' = "parker"
    /\ futex' = UNPARKED
    /\ prepared' = FALSE
    /\ unlockedSince' = FALSE
    /\ UNCHANGED << otherWord, otherWaiting, unparkedStale >>
    /\ UNCHANGED ownerAndClock

\* --------------------------------------------------------------- the clock
\* the clock advances: freely up to MaxSec, and beyond it only for as long as
\* a timed wait has not yet run out
Tick ==
    /\ \/ clock.sec < MaxSec
       \/ /\ pc = "blocked"
          /\ waitTimed
          /\ ~InstantLe(Expiry(waitStart, waitTs), clock)
    /\ clock' = NextInstant(clock)
    /\ UNCHANGED memory
    /\ UNCHANGED << futex, pc, call, inner, timeout, now, loaded, waitTimed,
                    waitTs, waitStart, r, puResult, timedOutResult, handles,
                    queued, unlockedSince, unlockedAtCall, pastAtCall, waited,
                    timedWaited, overflowed, lastWake, unparkPanicked,
                    debug_assertions, prepared >>

Next ==
    \/ PreparePark
    \/ CallPark
    \/ \E d \in Deadlines : CallParkUntil(d)
    \/ ParkLoad
    \/ ParkReturn
    \/ ParkUntilLoad
    \/ ParkUntilNow
    \/ FutexWaitCall
    \/ FutexTimeout
    \/ FutexWaitReturn
    \/ TimedOut
    \/ Finish
    \/ UnparkLock
    \/ Unpark
    \/ Tick
    \/ DropParker
    \/ \E w \in {UNPARKED, PARKED}, b \in BOOLEAN : ReuseMemory(w, b)
    \/ ReleaseMemory
    \/ NewParker

Spec == Init /\ [][Next]_vars

\* ------------------------------------------- a host that breaks its contract
\* statuses of futex_wait that are none of 0, -ETIMEDOUT, -EAGAIN
UnexpectedCodes == {-EINVAL, EAGAIN}

\* the host ends a wait with a status outside its contract
FutexFault(x) ==
    /\ pc = "blocked"
    /\ r' = x
    /\ pc' = "wait_ret"
    /\ UNCHANGED memory
    /\ UNCHANGED << futex, call, inner, timeout, now, loaded, waitTimed, waitTs,
                    waitStart, puResult, timedOutResult, handles, queued, clock,
                    unlockedSince, unlockedAtCall, pastAtCall, waited,
                    timedWaited, overflowed, lastWake, unparkPanicked,
                    debug_assertions, prepared >>

NextFault ==
    \/ Next
    \/ \E x \in UnexpectedCodes : FutexFault(x)

FaultSpec == Init /\ [][NextFault]_vars


\* the scheduler runs a thread that can take a step, the unparker consumes a
\* handle it holds, a due timeout is delivered and the clock goes on; nobody
\* is obliged to start a cycle or to call unpark_lock
LiveSpec ==
    /\ Spec
    /\ WF_vars(ParkLoad)
    /\ WF_vars(ParkReturn)
    /\ WF_vars(ParkUntilLoad)
    /\ WF_vars(ParkUntilNow)
    /\ WF_vars(FutexWaitCall)
    /\ WF_vars(FutexWaitReturn)
    /\ WF_vars(FutexTimeout)
    /\ WF_vars(TimedOut)
    /\ WF_vars(Finish)
    /\ WF_vars(Unpark)
    /\ WF_vars(Tick)

\* ------------------------------------------------------------ the claims
\* the owner is inside park(), called directly or from park_until
InPark == call = "park" \/ inner

\* the owner is inside the wait primitive or about to enter it
AtWait == pc \in {"wait_call", "blocked", "wait_ret"}

\* park_until has returned
ParkUntilReturned == pc \in {"pu_ret", "pu_done"}

\* C1: every return of park() happens with the state word UNPARKED, after an
\* unpark_lock() that ran since the owner's most recent prepare_park(); a woken
\* return of the wait alone never makes park() return.
C1_ParkReturnsOnlyUnparked ==
    pc = "park_ret" => futex = UNPARKED /\ unlockedSince

\* C2: no lost wake: once unpark_lock() has run after the owner's
\* prepare_park(), a park() of the owner eventually returns.
C2_NoLostWake ==
    (call = "park" /\ unlockedSince) ~> (pc = "park_ret")

\* C2 witness: the owner blocked in the wait of park() before unpark_lock() ran,
\* and the handle has not been consumed yet
C2_Witness ==
    call = "park" /\ pc = "blocked" /\ unlockedSince /\ handles > 0

\* C3: a park() entered after unpark_lock() ran (since the last
\* prepare_park()) never invokes the wait primitive, whether or not unpark()
\* has been performed.
C3_NoWaitAfterUnparkLock ==
    InPark /\ unlockedAtCall => ~waited /\ ~AtWait

\* C3 witness: such a park() has returned while the handle is still outstanding
C3_Witness ==
    call = "park" /\ pc = "park_ret" /\ unlockedAtCall /\ ~waited /\ handles > 0

\* C4: park_until returns true only with the state word UNPARKED, after an
\* unpark_lock() that ran since the owner's most recent prepare_park().
C4_TrueOnlyIfUnparked ==
    pc = "pu_ret" /\ puResult => futex = UNPARKED /\ unlockedSince

\* C5: timed_out(), called right after park_until returned false, returns true
\* exactly when no unpark_lock() ran since the last prepare_park() up to that
\* call; so an unpark_lock() shows as park_until true or as timed_out() false.
C5_TimedOutReflectsUnpark ==
    [][pc = "pu_ret" /\ pc' = "pu_done" => (timedOutResult' <=> ~unlockedSince)]_vars

\* C5 witness: the unpark raced with the deadline: park_until returned false
\* and timed_out() returned false
C5_Witness ==
    pc = "pu_done" /\ ~puResult /\ ~timedOutResult /\ unlockedSince

\* C6 (as claimed): park_until called with the deadline at or before the
\* current time returns false whatever the state word holds.
C6_PastDeadlineAlwaysFalse ==
    pc = "pu_ret" /\ pastAtCall => ~puResult

\* C6 (amended): park_until called with the deadline at or before the current
\* time never invokes the wait primitive; it returns false when the word it
\* loads is PARKED and true when the word it loads is UNPARKED.
C6_PastDeadlineNoWait ==
    call = "park_until" /\ pastAtCall =>
        /\ ~waited
        /\ ~AtWait
        /\ ~inner
        /\ (ParkUntilReturned => (puResult <=> loaded = UNPARKED))

\* C6 witness: a call with a past deadline returned false
C6_Witness ==
    pc = "pu_ret" /\ pastAtCall /\ ~puResult /\ loaded = PARKED

\* C7 (as claimed): the word is PARKED exactly between prepare_park() and the
\* matching unpark_lock() or timeout, and UNPARKED otherwise, also after a
\* park_until that ended by timeout.
C7_ParkedUntilWakeOrTimeout ==
    (futex = PARKED) <=>
        /\ prepared
        /\ ~unlockedSince
        /\ pc # "idle"
        /\ ~(ParkUntilReturned /\ ~puResult)

\* C7 (amended): the word is PARKED exactly from prepare_park() to the next
\* unpark_lock(); a timeout leaves it PARKED. It is UNPARKED when freshly
\* constructed and after unpark_lock().
C7_ParkedUntilUnparkLock ==
    (futex = PARKED) <=> (prepared /\ ~unlockedSince)

\* C7 witness: park_until ended by timeout and the word is still PARKED
C7_Witness ==
    pc = "pu_done" /\ ~puResult /\ timedOutResult /\ futex = PARKED

\* C8: with no unpark_lock() after prepare_park(), a park_until with a
\* non-overflowing deadline returns false, and timed_out() then returns true.
C8_TimeoutWithoutUnpark ==
    /\ (pc = "pu_ret" /\ ~overflowed /\ ~unlockedSince => ~puResult)
    /\ (pc = "pu_done" /\ ~unlockedSince => timedOutResult)

\* C9: park_until never returns false before the deadline: the clock it read
\* was at or past the deadline, or a wait given deadline minus that reading
\* ran its full time and reported timed-out.
C9_NoEarlyTimeout ==
    pc = "pu_ret" /\ ~puResult =>
        /\ InstantLe(timeout, clock)
        /\ \/ InstantLe(timeout, now)
           \/ /\ r = -ETIMEDOUT
              /\ Expiry(now, waitTs) = timeout
              /\ InstantLe(Expiry(waitStart, waitTs), clock)

\* C9 witness: a false return that came from a wait that timed out
C9_Witness ==
    pc = "pu_ret" /\ ~puResult /\ r = -ETIMEDOUT /\ ~InstantLe(timeout, now)

\* C10: when the whole seconds of (deadline - now) exceed time_t::MAX,
\* park_until issues no timed wait, runs the untimed park() and returns true
\* when that returns; it never returns false and never fails.
C10_OverflowIsUntimedPark ==
    call = "park_until" /\ overflowed =>
        /\ ~timedWaited
        /\ (AtWait => ~waitTimed)
        /\ pc \in {"park_load", "wait_call", "blocked", "wait_ret", "park_ret", "pu_ret"}
        /\ (pc = "pu_ret" => puResult)
        /\ (pc # "pu_ret" => inner)

\* C10 witness: the untimed park blocked, was woken, and park_until returned true
C10_Witness ==
    pc = "pu_ret" /\ overflowed /\ puResult /\ waited /\ ~timedWaited

\* C11: unpark() neither reads nor writes through its address: it completes
\* and leaves the state word of every parker unchanged, also when the address
\* has been freed or is now the word of another parker; it only wakes the
\* threads blocked on the address.
C11_UnparkTouchesNoWord ==
    [][handles' < handles =>
          /\ futex' = futex
          /\ otherWord' = otherWord
          /\ mem' = mem
          /\ ~unparkPanicked'
          /\ lastWake' = Waiters]_vars

\* C11 witness: an unpark() ran on an address that another parker now owns,
\* woke the thread blocked there, and that parker's word is as it was
C11_Witness ==
    /\ unparkedStale
    /\ mem = "reused"
    /\ otherWord = PARKED
    /\ lastWake > 0
    /\ ~otherWaiting
    /\ handles < MaxHandles

\* C12: whenever unpark() issues its wake at most one thread is blocked on the
\* address, so futex_wake returns 0 or 1 and the unexpected-return check of
\* unpark() never fires.
C12_AtMostOneWaiter ==
    /\ Waiters <= 1
    /\ lastWake \in {0, 1}
    /\ ~WakeUnexpected(lastWake)
    /\ ~unparkPanicked

\* C12 witness: in a debug build an unpark() has woken the blocked owner, and
\* a further handle is outstanding
C12_Witness ==
    /\ debug_assertions
    /\ lastWake = 1
    /\ pc = "wait_ret"
    /\ r = 0
    /\ handles > 0

\* C13: a status of the wait that is none of success, timed-out and
\* value-mismatch never reaches the caller of park() / park_until(): a debug
\* build panics; a release build ignores it, leaves the word unchanged and
\* goes back to re-read the word.
C13_UnexpectedStatusNotReturned ==
    [][(pc = "wait_ret" /\ r \in UnexpectedCodes /\ pc' # pc) =>
          IF debug_assertions
          THEN pc' = "panicked"
          ELSE /\ pc' = (IF InPark THEN "park_load" ELSE "pu_load")
               /\ futex' = futex
               /\ puResult' = puResult]_vars

\* C13 witness: in a release build park_until is back at its loop head after
\* a wait that returned -EINVAL, the word still PARKED
C13_Witness ==
    /\ ~debug_assertions
    /\ call = "park_until"
    /\ pc = "pu_load"
    /\ r = -EINVAL
    /\ futex = PARKED

\* C14: a value-mismatch outcome of the wait is handled exactly like a success
\* (woken) outcome: after either, park() and park_until() loop and re-read the
\* word, and neither outcome by itself decides the return of the call.
C14_MismatchLikeSuccess ==
    [][(pc = "wait_ret" /\ r \in {0, -EAGAIN} /\ pc' # pc) =>
          pc' = (IF InPark THEN "park_load" ELSE "pu_load")]_vars

\* C15: park_until reads the clock anew in every iteration; a wait it issues
\* carries deadline minus that reading, which is strictly positive; an
\* iteration whose reading is at or past the deadline issues no wait, and a
\* call whose deadline is already past never invokes the wait primitive.
C15_ClockRereadEachRetry ==
    /\ [][(pc = "pu_now" /\ pc' # pc) =>
             /\ now' = clock
             /\ (InstantLe(timeout, clock) => pc' = "pu_ret" /\ ~puResult')
             /\ (pc' = "wait_call" /\ waitTimed' =>
                    /\ ~InstantLe(timeout, clock)
                    /\ Expiry(clock, waitTs') = timeout
                    /\ waitTs'.tv_sec >= 0
                    /\ waitTs'.tv_nsec >= 0
                    /\ waitTs'.tv_sec + waitTs'.tv_nsec > 0)]_vars
    /\ [](call = "park_until" /\ pastAtCall => ~waited /\ ~AtWait)

\* C15 witness: a retry: after a wait that ended with an unexpected status the
\* clock was read again, later than that wait began, and a new timed wait with
\* the rest of the time is about to be issued
C15_Witness ==
    /\ call = "park_until"
    /\ pc = "wait_call"
    /\ waitTimed
    /\ r = -EINVAL
    /\ ~InstantLe(now, waitStart)
    /\ Expiry(now, waitTs) = timeout

\* C16: the word is written only by new() (UNPARKED), prepare_park() (PARKED)
\* and unpark_lock() (UNPARKED); park(), park_until() and timed_out() never
\* change it. So a load that reads UNPARKED after prepare_park() follows an
\* unpark_lock(), and after a timeout the word stays PARKED until then.
C16_OnlyThreeWriters ==
    /\ [][futex' # futex =>
             \/ pc = "idle" /\ pc' = "prepared" /\ futex' = PARKED
             \/ handles' = handles + 1 /\ futex' = UNPARKED
             \/ mem = "freed" /\ mem' = "parker" /\ futex' = UNPARKED]_vars
    /\ [][(pc \in {"park_load", "pu_load"} /\ pc' # pc /\ loaded' = UNPARKED) =>
             unlockedSince]_vars
    /\ [](ParkUntilReturned /\ ~puResult /\ ~unlockedSince => futex = PARKED)

\* C16 witness: park_until timed out after a retry, timed_out() has run, and
\* the word is still PARKED
C16_Witness ==
    /\ pc = "pu_done"
    /\ ~puResult
    /\ timedOutResult
    /\ waited
    /\ r = -ETIMEDOUT
    /\ futex = PARKED
    /\ ~unlockedSince

\* C17: on the timed path the conversion of the remaining time is lossless:
\* tv_sec is the whole seconds (non-negative, at most time_t::MAX, not
\* wrapped) and tv_nsec the sub-second nanoseconds, in [0, 10^9) and within
\* i32; whole seconds of time_t::MAX take the timed path, one more the untimed.
C17_LosslessTimespec ==
    LET d == InstantSub(timeout, now)
    IN  /\ (call = "park_until" /\ AtWait /\ waitTimed) =>
               /\ as_secs(d) <= time_t_MAX
               /\ waitTs.tv_sec = as_secs(d)
               /\ waitTs.tv_sec >= 0
               /\ waitTs.tv_nsec = subsec_nanos(d)
               /\ waitTs.tv_nsec \in 0 .. (NANOS_PER_SEC - 1)
               /\ waitTs.tv_nsec <= I32Max
        /\ (call = "park_until" /\ (AtWait \/ pc = "park_load")) =>
               /\ inner <=> as_secs(d) >= time_t_MAX + 1
               /\ ~inner <=> as_secs(d) <= time_t_MAX
               /\ AtWait => (waitTimed <=> ~inner)

\* C17 witness: a timed wait whose timeout is time_t::MAX seconds and the
\* largest sub-second part
C17_Witness ==
    /\ call = "park_until"
    /\ pc = "blocked"
    /\ waitTimed
    /\ waitTs.tv_sec = time_t_MAX
    /\ waitTs.tv_nsec = NANOS_PER_SEC - 1

====
